---- MODULE Spec2Model ----
(***************************************************************************)
(* png23d mesh core (src/mesh.c): triangle soup -> indexed mesh ->         *)
(* edge-collapse simplification.                                           *)
(*                                                                         *)
(* Vertex indices and facet positions are 0-based, as in the C source; a   *)
(* TLA+ sequence is 1-based, so slot k of an array is element k+1.  A      *)
(* `struct facet *` held in an incidence list is modelled by the position  *)
(* of the facet in mesh->f (the pointer is mesh->f + position).            *)
(* A coordinate is a float that is a small multiple of 1/Unit, held as the *)
(* integer that counts those parts; Unit is a power of two, so every       *)
(* product and sum the code computes on them is exact in float.  A normal  *)
(* is then a vector of multiples of 1/(Unit*Unit), held the same way.      *)
(***************************************************************************)
EXTENDS Integers, Sequences, FiniteSets, TLC

VARIABLES
    f,          \* mesh->f[0 .. fcount-1]: the live facets (fcount = Len(f))
    p,          \* mesh->p[0 .. pcount-1]: the vertices (pcount = Len(p))
    pc,         \* position of the caller / of simplify_mesh
    vloop,      \* simplify_mesh: the cursor
    vtx1,       \* simplify_mesh: the vertex find_adjacent returned
    stats,      \* mesh->find_count and bloom_miss (find_cost is only ever a dividend)
    dumpfile,   \* mesh->dumpfile != NULL
    held,       \* the heap blocks the mesh owns and has not freed
    oob,        \* a write facets[fcount++] landed at an index >= FACETPNT_CNT
    soup,       \* history: the corner coordinates of the facets index_mesh found
    pre,        \* history: no vertex had more than FACETPNT_CNT facets when
                \*          simplify_mesh was last entered
    merged,     \* history: the <<start, end>> of every merge_edge that returned
    entry,      \* history: mesh->f and mesh->p as the merge_edge last entered
                \*          found them
    lastop      \* history: the last step taken, its arguments and what it returned

vars == <<f, p, pc, vloop, vtx1, stats, dumpfile, held, oob, soup, pre,
          merged, entry, lastop>>

(***************************************************************************)
(* Bounds of the model.                                                    *)
(***************************************************************************)
\* the most facets mesh_add_facet is called to append
MaxFacets == 3
\* the most false positives the point filter gives during one index_mesh
MaxBloomMiss == 1

\* the largest absolute value of a component of a vector given to same_normal
MaxCoord == 2

\* the float coordinates given to mesh_add_facet are multiples of 1/Unit
Unit == 2
\* the components of a normal are multiples of 1/NormalUnit
NormalUnit == Unit * Unit

\* mesh.h (not among the sources): the capacity of a vertex's facets[] array.
\* Kept small so that the valence limit is met by the meshes explored.
FACETPNT_CNT == 3

(***************************************************************************)
(* Geometry primitives.                                                    *)
(***************************************************************************)
eqpnt(p0, p1) == (p0[1] = p1[1]) /\ (p0[2] = p1[2]) /\ (p0[3] = p1[3])

nepnt(p0, p1) == (p0[1] # p1[1]) \/ (p0[2] # p1[2]) \/ (p0[3] # p1[3])

\* the conversion of a float to int: the fraction is dropped, toward zero.
\* x counts parts of 1/d.
FloatToInt(x, d) == IF x >= 0 THEN x \div d ELSE - ((- x) \div d)

\* dot_product returns int: the float sum of the products, converted.  Its
\* arguments are normals, so the sum counts parts of 1/(NormalUnit*NormalUnit).
dot_product(a, b) ==
    FloatToInt((a[1] * b[1]) + (a[2] * b[2]) + (a[3] * b[3]),
               NormalUnit * NormalUnit)

cross_product(a, b) ==
    << a[2] * b[3] - a[3] * b[2],
       a[3] * b[1] - a[1] * b[3],
       a[1] * b[2] - a[2] * b[1] >>

\* pnt_normal: the normal written to *n, and the returned degenerate flag
pnt_normal(v0, v1, v2) ==
    LET a == << v1[1] - v0[1], v1[2] - v0[2], v1[3] - v0[3] >>
        b == << v2[1] - v0[1], v2[2] - v0[2], v2[3] - v0[3] >>
        n == << a[2] * b[3] - a[3] * b[2],
                a[3] * b[1] - a[1] * b[3],
                a[1] * b[2] - a[2] * b[1] >>
    IN  [n |-> n, degenerate |-> (n[1] = 0) /\ (n[2] = 0) /\ (n[3] = 0)]

\* (mutant) the sign test of the dot product is left out
same_normal_NoSign(n1, n2) ==
    LET cn == cross_product(n1, n2)
    IN  ~ (cn[1] # 0 \/ cn[2] # 0 \/ cn[3] # 0)

same_normal(n1, n2) ==
    IF dot_product(n1, n2) < 0
    THEN FALSE
    ELSE LET cn == cross_product(n1, n2)
         IN  ~ (cn[1] # 0 \/ cn[2] # 0 \/ cn[3] # 0)

(***************************************************************************)
(* The inputs: the corner coordinates handed to mesh_add_facet.            *)
(***************************************************************************)
PA == <<0, 0, 0>>
PB == <<Unit, 0, 0>>                \* (1, 0, 0)
PC == <<Unit, Unit, 0>>             \* (1, 1, 0)
PD == <<0, Unit, 0>>                \* (0, 1, 0)
PE == <<2 * Unit, 0, 0>>            \* (2, 0, 0)
PG == <<0, 0, Unit>>                \* (0, 0, 1)
PH == <<- Unit, Unit, 0>>           \* (-1, 1, 0)
PI == <<- Unit, 0, 0>>              \* (-1, 0, 0)
PX == <<1, 1, 0>>                   \* (1/Unit, 1/Unit, 0)
PZ == <<Unit, - Unit, 0>>           \* (1, -1, 0)

Triangles ==
    { <<PA, PB, PC>>, <<PA, PC, PD>>,      \* unit square, diagonal A-C
      <<PA, PB, PD>>, <<PB, PC, PD>>,      \* unit square, diagonal B-D
      <<PC, PA, PB>>,                      \* the first one, corners rotated
      <<PA, PC, PB>>,                      \* the first one, opposite orientation
      <<PB, PE, PC>>,                      \* continues the strip along y = 0
      <<PA, PB, PG>>, <<PA, PG, PD>>,      \* two more faces of the corner at A
      <<PA, PA, PB>>,                      \* two coincident corners
      <<PA, PB, PE>>,                      \* three distinct collinear corners
      <<PA, PD, PH>>, <<PA, PH, PI>>,      \* continue the fan around A
      <<PA, PB, PX>>, <<PB, PX, PZ>>,      \* two small facets either side of B-X
      <<PX, PZ, PG>> }                     \* a facet out of their plane on X-Z

\* Two fans of three coplanar facets, around A and around B, that share the
\* facet A-B-D: the edge A-B is where the valence limit decides.
Fan ==
    { <<PA, PB, PD>>, <<PA, PD, PH>>, <<PA, PH, PI>>,
      <<PB, PC, PD>>, <<PB, PE, PC>> }

\* the corner coordinates of the facets of F, as mesh_add_facet was given them
SoupOf(F) == { F[k].v : k \in 1 .. Len(F) }

\* i[] of a facet mesh_add_facet has written and index_mesh has not
NoIndex == <<0, 0, 0>>

(***************************************************************************)
(* Reading the arrays.                                                     *)
(***************************************************************************)
\* what a read of a facet slot at or past fcount is taken to yield
DeadFacet ==
    [v |-> <<PA, PA, PA>>, i |-> NoIndex, n |-> <<0, 0, 0>>, id |-> -1]

FacetAt(F, k) == IF k \in 0 .. (Len(F) - 1) THEN F[k + 1] ELSE DeadFacet

NoVertex == [pnt |-> PA, facets |-> << >>]

VertexAt(P, v) == IF v \in 0 .. (Len(P) - 1) THEN P[v + 1] ELSE NoVertex

fcountOf(P, v) == Len(VertexAt(P, v).facets)

(***************************************************************************)
(* mesh_add_facet.                                                         *)
(***************************************************************************)
\* the facet written at mesh->f + mesh->fcount.  id is history: the position
\* the facet is appended at, which names it wherever remove_facet moves it.
NewFacet(F, v0, v1, v2) ==
    [v |-> <<v0, v1, v2>>, i |-> NoIndex, n |-> pnt_normal(v0, v1, v2).n,
     id |-> Len(F)]

\* (mutant) the degenerate facet is counted as well
mesh_add_facet_Always(F, v0, v1, v2) == Append(F, NewFacet(F, v0, v1, v2))

\* mesh->f after the call: fcount++ only when the facet is not degenerate
mesh_add_facet(F, v0, v1, v2) ==
    IF ~ pnt_normal(v0, v1, v2).degenerate
    THEN Append(F, NewFacet(F, v0, v1, v2))
    ELSE F

(***************************************************************************)
(* The point index (mesh_bloom.c, not among the sources): modelled from    *)
(* the specification, section 4.3.                                         *)
(***************************************************************************)
RECURSIVE ScanFrom(_, _, _)
\* the linear scan: the first slot at or after j holding pt, or Len(P)
ScanFrom(P, pt, j) ==
    IF j >= Len(P) THEN Len(P)
    ELSE IF eqpnt(P[j + 1].pnt, pt) THEN j
    ELSE ScanFrom(P, pt, j + 1)

\* fp: the filter answers "possibly present" for a point that is not present
mesh_add_pnt(P, st, pt, fp) ==
    LET at      == ScanFrom(P, pt, 0)
        present == at < Len(P)
        scanned == present \/ fp
        st2     == IF scanned
                   THEN [find_count |-> st.find_count + 1,
                         bloom_miss |-> st.bloom_miss + (IF present THEN 0 ELSE 1)]
                   ELSE st
    IN  IF present
        THEN [p |-> P, stats |-> st2, idx |-> at]
        ELSE [p |-> Append(P, [pnt |-> pt, facets |-> << >>]),
              stats |-> st2, idx |-> Len(P)]

(***************************************************************************)
(* Incidence lists.  A mesh value M is [f, p, oob, bad]: the two arrays,   *)
(* whether a list write went past FACETPNT_CNT entries, and whether a      *)
(* call reported a failure.                                                *)
(***************************************************************************)
\* mesh->p[v].facets[mesh->p[v].fcount++] = mesh->f + k
AddFacetToVertex(M, k, v) ==
    IF v \in 0 .. (Len(M.p) - 1)
    THEN [M EXCEPT !.p[v + 1].facets = Append(@, k),
                   !.oob = @ \/ (Len(M.p[v + 1].facets) >= FACETPNT_CNT)]
    ELSE [M EXCEPT !.oob = TRUE]

\* the position of the first entry of list L equal to k (1-based), 0 if none
RECURSIVE FirstAt(_, _, _)
FirstAt(L, k, j) ==
    IF j > Len(L) THEN 0
    ELSE IF L[j] = k THEN j
    ELSE FirstAt(L, k, j + 1)

\* (mutant) fcount-- without moving the entries down: the last entry is lost
RemoveFromList_Last(L, k) ==
    IF FirstAt(L, k, 1) = 0 THEN L ELSE SubSeq(L, 1, Len(L) - 1)

\* the list after remove_facet_from_vertex: the first entry equal to k is
\* dropped and the entries after it move down one place
RemoveFromList(L, k) ==
    LET j == FirstAt(L, k, 1)
    IN  IF j = 0 THEN L
        ELSE [x \in 1 .. (Len(L) - 1) |-> IF x < j THEN L[x] ELSE L[x + 1]]

remove_facet_from_vertex(M, k, v) ==
    IF v \in 0 .. (Len(M.p) - 1) /\ FirstAt(M.p[v + 1].facets, k, 1) # 0
    THEN [M EXCEPT !.p[v + 1].facets = RemoveFromList(@, k)]
    ELSE [M EXCEPT !.bad = TRUE]

\* (mutant) only the first entry of the list is looked at
facet_on_vertex_First(M, k, v) ==
    Len(VertexAt(M.p, v).facets) > 0 /\ VertexAt(M.p, v).facets[1] = k

facet_on_vertex(M, k, v) == FirstAt(VertexAt(M.p, v).facets, k, 1) # 0

(***************************************************************************)
(* index_mesh.                                                             *)
(***************************************************************************)
\* (mutant) i[2] is given the slot of corner 1
IndexFacet_Corner(X, floop, fps) ==
    LET fc == X.f[floop + 1]
        r0 == mesh_add_pnt(X.p,  X.stats,  fc.v[1], (3 * floop + 1) \in fps)
        r1 == mesh_add_pnt(r0.p, r0.stats, fc.v[2], (3 * floop + 2) \in fps)
        r2 == mesh_add_pnt(r1.p, r1.stats, fc.v[3], (3 * floop + 3) \in fps)
        M0 == [f   |-> [X.f EXCEPT ![floop + 1].i = <<r0.idx, r1.idx, r1.idx>>],
               p   |-> r2.p, oob |-> X.oob, bad |-> X.bad]
        M1 == AddFacetToVertex(M0, floop, r0.idx)
        M2 == AddFacetToVertex(M1, floop, r1.idx)
        M3 == AddFacetToVertex(M2, floop, r1.idx)
    IN  [f |-> M3.f, p |-> M3.p, oob |-> M3.oob, bad |-> M3.bad,
         stats |-> r2.stats]

\* one iteration of the loop of index_mesh, on facet floop; X carries the
\* mesh value and the statistics, fps the lookups (numbered from 1) at which
\* the filter gives a false positive
IndexFacet(X, floop, fps) ==
    LET fc == X.f[floop + 1]
        r0 == mesh_add_pnt(X.p,  X.stats,  fc.v[1], (3 * floop + 1) \in fps)
        r1 == mesh_add_pnt(r0.p, r0.stats, fc.v[2], (3 * floop + 2) \in fps)
        r2 == mesh_add_pnt(r1.p, r1.stats, fc.v[3], (3 * floop + 3) \in fps)
        M0 == [f   |-> [X.f EXCEPT ![floop + 1].i = <<r0.idx, r1.idx, r2.idx>>],
               p   |-> r2.p, oob |-> X.oob, bad |-> X.bad]
        M1 == AddFacetToVertex(M0, floop, r0.idx)
        M2 == AddFacetToVertex(M1, floop, r1.idx)
        M3 == AddFacetToVertex(M2, floop, r2.idx)
    IN  [f |-> M3.f, p |-> M3.p, oob |-> M3.oob, bad |-> M3.bad,
         stats |-> r2.stats]

RECURSIVE IndexFrom(_, _, _)
IndexFrom(X, floop, fps) ==
    IF floop >= Len(X.f) THEN X
    ELSE IndexFrom(IndexFacet(X, floop, fps), floop + 1, fps)

\* the three divisions of the statistics index_mesh prints
StatsDivideByZero(X) == (Len(X.f) * 3 = 0) \/ (X.stats.find_count = 0)

\* the sets of lookups that may be false positives
RECURSIVE SubsetsUpTo(_, _)
SubsetsUpTo(S, n) ==
    IF n = 0 THEN { {} }
    ELSE LET prev == SubsetsUpTo(S, n - 1)
         IN  prev \cup { s \cup {x} : s \in prev, x \in S }

FalsePositives(F) == SubsetsUpTo(1 .. (3 * Len(F)), MaxBloomMiss)

(***************************************************************************)
(* The simplification engine.                                              *)
(***************************************************************************)
is_candidate(M, ivtx) ==
    LET L == VertexAt(M.p, ivtx).facets
    IN  \A floop \in 1 .. (Len(L) - 1) :
            same_normal(FacetAt(M.f, L[floop]).n, FacetAt(M.f, L[floop + 1]).n)

\* one iteration of the loop of check_move_ok: facet fc of `from` passes
MoveFacetOk(fc, from, topnt) ==
    IF from \notin {fc.i[1], fc.i[2], fc.i[3]}
    THEN FALSE
    ELSE LET v0 == IF fc.i[1] = from THEN topnt ELSE fc.v[1]
             v1 == IF fc.i[1] # from /\ fc.i[2] = from THEN topnt ELSE fc.v[2]
             v2 == IF fc.i[1] # from /\ fc.i[2] # from THEN topnt ELSE fc.v[3]
             nn == pnt_normal(v0, v1, v2)
         IN  IF nn.degenerate
             THEN ~ (nepnt(v0, v1) /\ nepnt(v1, v2) /\ nepnt(v2, v0))
             ELSE same_normal(nn.n, fc.n)

\* (mutant) every move is let through
check_move_ok_Any(M, from, to) == TRUE

check_move_ok(M, from, to) ==
    LET L == VertexAt(M.p, from).facets
    IN  \A floop \in 1 .. Len(L) :
            MoveFacetOk(FacetAt(M.f, L[floop]), from, VertexAt(M.p, to).pnt)

\* (mutant) the valence test is left out
AdjacentOk_NoValence(M, ivtx, civtx) ==
    /\ civtx # ivtx
    /\ is_candidate(M, civtx)
    /\ check_move_ok(M, civtx, ivtx)

\* the tests find_adjacent makes of the vertex civtx it has reached
AdjacentOk(M, ivtx, civtx) ==
    /\ civtx # ivtx
    /\ is_candidate(M, civtx)
    /\ ~ (((fcountOf(M.p, ivtx) + fcountOf(M.p, civtx)) - 2) > FACETPNT_CNT)
    /\ check_move_ok(M, civtx, ivtx)

\* the vertex find_adjacent reaches at step n = 3 * floop + vloop
CornerAt(M, ivtx, n) ==
    FacetAt(M.f, VertexAt(M.p, ivtx).facets[(n \div 3) + 1]).i[(n % 3) + 1]

\* (mutant) the last vertex that passes is returned, not the first
RECURSIVE FindFrom_Last(_, _, _)
FindFrom_Last(M, ivtx, n) ==
    IF n >= 3 * fcountOf(M.p, ivtx)
    THEN [found |-> FALSE, avtx |-> 0]
    ELSE LET r == FindFrom_Last(M, ivtx, n + 1)
         IN  IF r.found THEN r
             ELSE IF AdjacentOk(M, ivtx, CornerAt(M, ivtx, n))
                  THEN [found |-> TRUE, avtx |-> CornerAt(M, ivtx, n)]
                  ELSE r

RECURSIVE FindFrom(_, _, _)
FindFrom(M, ivtx, n) ==
    IF n >= 3 * fcountOf(M.p, ivtx)
    THEN [found |-> FALSE, avtx |-> 0]
    ELSE IF AdjacentOk(M, ivtx, CornerAt(M, ivtx, n))
         THEN [found |-> TRUE, avtx |-> CornerAt(M, ivtx, n)]
         ELSE FindFrom(M, ivtx, n + 1)

find_adjacent(M, ivtx) == FindFrom(M, ivtx, 0)

\* (mutant) the moved facet is added under its new position and not removed
\* under its old one
MoveLastInto_NoFixup(M, k) ==
    LET r  == Len(M.f) - 1
        fc == M.f[r + 1]
        M0 == [M EXCEPT !.f = [x \in 1 .. r |-> IF x = k + 1 THEN fc ELSE M.f[x]]]
        M4 == AddFacetToVertex(M0, k, fc.i[1])
        M5 == AddFacetToVertex(M4, k, fc.i[2])
    IN  AddFacetToVertex(M5, k, fc.i[3])

\* remove_facet: the second half, run when the facet was not the last one
MoveLastInto(M, k) ==
    LET r  == Len(M.f) - 1
        fc == M.f[r + 1]
        M0 == [M EXCEPT !.f = [x \in 1 .. r |-> IF x = k + 1 THEN fc ELSE M.f[x]]]
        M1 == remove_facet_from_vertex(M0, r, fc.i[1])
        M2 == remove_facet_from_vertex(M1, r, fc.i[2])
        M3 == remove_facet_from_vertex(M2, r, fc.i[3])
        M4 == AddFacetToVertex(M3, k, fc.i[1])
        M5 == AddFacetToVertex(M4, k, fc.i[2])
    IN  AddFacetToVertex(M5, k, fc.i[3])

\* (mutant) fcount-- without moving the last facet into the freed slot
remove_facet_NoMove(M, k) ==
    LET fc == FacetAt(M.f, k)
        M1 == remove_facet_from_vertex(M,  k, fc.i[1])
        M2 == remove_facet_from_vertex(M1, k, fc.i[2])
        M3 == remove_facet_from_vertex(M2, k, fc.i[3])
    IN  [M3 EXCEPT !.f = SubSeq(M.f, 1, Len(M.f) - 1)]

remove_facet(M, k) ==
    LET fc == FacetAt(M.f, k)
        M1 == remove_facet_from_vertex(M,  k, fc.i[1])
        M2 == remove_facet_from_vertex(M1, k, fc.i[2])
        M3 == remove_facet_from_vertex(M2, k, fc.i[3])
    IN  IF Len(M.f) - 1 # k
        THEN MoveLastInto(M3, k)
        ELSE [M3 EXCEPT !.f = SubSeq(M.f, 1, Len(M.f) - 1)]

\* (mutant) the corner index is changed and the corner coordinate is not
SetCorner_NoCoordinate(M, k, j, to) == [M EXCEPT !.f[k + 1].i[j] = to]

\* (mutant) the corner coordinate is changed and the corner index is not
SetCorner_NoIndex(M, k, j, to) ==
    [M EXCEPT !.f[k + 1].v[j] = VertexAt(M.p, to).pnt]

\* move_facet_vertex: facet->i[j] = to; facet->v[j] = mesh->p[to].pnt
SetCorner(M, k, j, to) ==
    [M EXCEPT !.f[k + 1].i[j] = to,
              !.f[k + 1].v[j] = VertexAt(M.p, to).pnt]

\* move_facet_vertex: the mesh after the call; .bad is set when it returns false
move_facet_vertex(M, k, from, to) ==
    LET fc == FacetAt(M.f, k)
        j  == IF fc.i[1] = from THEN 1
              ELSE IF fc.i[2] = from THEN 2
              ELSE IF fc.i[3] = from THEN 3 ELSE 0
    IN  IF j = 0
        THEN [M EXCEPT !.bad = TRUE]
        ELSE LET M0 == SetCorner(M, k, j, to)
                 M1 == AddFacetToVertex(M0, k, to)
                 M2 == remove_facet_from_vertex(M1, k, from)
                 v  == M2.f[k + 1].v
                 nn == pnt_normal(v[1], v[2], v[3])
             IN  IF FirstAt(VertexAt(M1.p, from).facets, k, 1) = 0
                 THEN M2
                 ELSE [M2 EXCEPT !.f[k + 1].n = nn.n,
                                 !.bad = @ \/ nn.degenerate]

\* (mutant) the facet is moved even when it is already on start
MergeIteration_MoveOnly(M, start, end) ==
    move_facet_vertex(M, VertexAt(M.p, end).facets[1], end, start)

\* one iteration of the while loop of merge_edge
MergeIteration(M, start, end) ==
    LET k == VertexAt(M.p, end).facets[1]
    IN  IF facet_on_vertex(M, k, start)
        THEN remove_facet(M, k)
        ELSE move_facet_vertex(M, k, end, start)

\* verify_mesh prints a diagnostic for facet fc
VerifyReports(fc) ==
    \/ (fc.i[1] = fc.i[2]) /\ (fc.i[2] = fc.i[3])
    \/ (fc.i[1] = fc.i[2]) \/ (fc.i[2] = fc.i[3]) \/ (fc.i[3] = fc.i[1])
    \/ eqpnt(fc.v[1], fc.v[2]) \/ eqpnt(fc.v[2], fc.v[3]) \/ eqpnt(fc.v[3], fc.v[1])

verify_mesh(F) == \E k \in 1 .. Len(F) : VerifyReports(F[k])

\* debug_mesh_fini reads v0->facets[0]->n for every live facet: the read is
\* through a slot that is not valid when vertex v0 is not in the vertex array
\* (or there is no vertex array) or has no incident facet.  dump_mesh makes
\* the same read, on the start vertex of a merge, and changes nothing.
StaleRead(F, P, v0) ==
    (Len(F) > 0) /\ ((v0 >= Len(P)) \/ (fcountOf(P, v0) = 0))

(***************************************************************************)
(* The state machine.                                                      *)
(*   pc = "soup"     new_mesh done, facets being appended                  *)
(*        "indexed"  index_mesh has returned                               *)
(*        "scan"     simplify_mesh at the head of its while loop           *)
(*        "merge"    simplify_mesh inside merge_edge(vloop, vtx1)          *)
(*        "done"     simplify_mesh has returned                            *)
(*        "freed"    free_mesh has returned                                *)
(*        "crashed"  the process was terminated by a signal                *)
(* The facets appended are any MaxFacets triangles of Triangles, or any    *)
(* number of distinct triangles of Fan.                                    *)
(***************************************************************************)
Op(name, a, b, r) == [op |-> name, a |-> a, b |-> b, ret |-> r]

NoStats == [find_count |-> 0, bloom_miss |-> 0]

Init ==
    /\ f = << >>
    /\ p = << >>
    /\ pc = "soup"
    /\ vloop = 0
    /\ vtx1 = 0
    /\ stats = NoStats
    /\ dumpfile = FALSE
    /\ held = {}
    /\ oob = FALSE
    /\ soup = << >>
    /\ pre = TRUE
    /\ merged = {}
    /\ entry = [f |-> << >>, p |-> << >>]
    /\ lastop = Op("new_mesh", 0, 0, TRUE)

\* debug_mesh_init with a file name that can be opened
DebugMeshInit ==
    /\ pc = "soup"
    /\ Len(f) = 0
    /\ ~ dumpfile
    /\ dumpfile' = TRUE
    /\ lastop' = Op("debug_mesh_init", 0, 0, TRUE)
    /\ UNCHANGED <<f, p, pc, vloop, vtx1, stats, held, oob, soup, pre, merged, entry>>

AddFacet(t) ==
    /\ pc = "soup"
    /\ \/ Len(f) < MaxFacets
       \/ /\ SoupOf(f) \subseteq Fan
          /\ Cardinality(SoupOf(f)) = Len(f)
          /\ t \in Fan \ SoupOf(f)
    /\ f' = mesh_add_facet(f, t[1], t[2], t[3])
    /\ held' = held \cup {"f"}
    /\ lastop' = Op("mesh_add_facet", t, 0, pnt_normal(t[1], t[2], t[3]).degenerate)
    /\ UNCHANGED <<p, pc, vloop, vtx1, stats, dumpfile, oob, soup, pre, merged, entry>>

\* the body of index_mesh, up to its return; the process goes on to `next`
\* unless a division by zero or a write past a facets[] array ends it
IndexBody(fps, name, next) ==
    LET X == IndexFrom([f |-> f, p |-> p, oob |-> oob, bad |-> FALSE,
                        stats |-> stats], 0, fps)
    IN  /\ f' = X.f
        /\ p' = X.p
        /\ stats' = X.stats
        /\ oob' = X.oob
        /\ soup' = [k \in 1 .. Len(f) |-> f[k].v]
        /\ held' = held \cup {"bloom_table"}
                        \cup (IF Len(X.p) > 0 THEN {"p"} ELSE {})
        /\ \/ /\ pc' = next
              /\ lastop' = Op(name, StatsDivideByZero(X), 0, TRUE)
           \/ /\ StatsDivideByZero(X) \/ (X.oob /\ ~ oob)
              /\ pc' = "crashed"
              /\ lastop' = Op(name, StatsDivideByZero(X), 0, FALSE)

IndexMesh ==
    /\ pc = "soup"
    /\ \E fps \in FalsePositives(f) : IndexBody(fps, "index_mesh", "indexed")
    /\ UNCHANGED <<vloop, vtx1, dumpfile, pre, merged, entry>>

\* simplify_mesh, from its entry to the head of its while loop
SimplifyMesh ==
    /\ pc \in {"soup", "indexed", "done"}
    /\ IF Len(p) = 0
       THEN \E fps \in FalsePositives(f) : IndexBody(fps, "simplify_mesh", "scan")
       ELSE /\ pc' = "scan"
            /\ lastop' = Op("simplify_mesh", 0, 0, TRUE)
            /\ UNCHANGED <<f, p, stats, oob, held, soup>>
    /\ vloop' = 0
    /\ pre' = \A v \in 0 .. (Len(p') - 1) : fcountOf(p', v) <= FACETPNT_CNT
    /\ UNCHANGED <<vtx1, dumpfile, merged, entry>>

Mesh == [f |-> f, p |-> p, oob |-> FALSE, bad |-> FALSE]

\* (mutant) the cursor advances past the vertex that is merged into as well
ScanStep_AdvanceAlways ==
    /\ pc = "scan"
    /\ IF vloop < Len(p)
       THEN IF is_candidate(Mesh, vloop) /\ find_adjacent(Mesh, vloop).found
            THEN /\ pc' = "merge"
                 /\ vtx1' = find_adjacent(Mesh, vloop).avtx
                 /\ vloop' = vloop + 1
                 /\ entry' = [f |-> f, p |-> p]
                 /\ lastop' = Op("find_adjacent", vloop, vtx1', TRUE)
            ELSE /\ pc' = "scan"
                 /\ vloop' = vloop + 1
                 /\ vtx1' = vtx1
                 /\ entry' = entry
                 /\ lastop' = Op("find_adjacent", vloop, 0, FALSE)
       ELSE /\ pc' = "done"
            /\ UNCHANGED <<vloop, vtx1, entry>>
            /\ lastop' = Op("verify_mesh", 0, 0, verify_mesh(f))
    /\ UNCHANGED <<f, p, stats, dumpfile, held, oob, soup, pre, merged>>

\* simplify_mesh: one test of the while loop, up to the call of merge_edge
ScanStep ==
    /\ pc = "scan"
    /\ IF vloop < Len(p)
       THEN IF is_candidate(Mesh, vloop) /\ find_adjacent(Mesh, vloop).found
            THEN /\ pc' = "merge"
                 /\ vtx1' = find_adjacent(Mesh, vloop).avtx
                 /\ vloop' = vloop
                 /\ entry' = [f |-> f, p |-> p]
                 /\ lastop' = Op("find_adjacent", vloop, vtx1', TRUE)
            ELSE /\ pc' = "scan"
                 /\ vloop' = vloop + 1
                 /\ vtx1' = vtx1
                 /\ entry' = entry
                 /\ lastop' = Op("find_adjacent", vloop, 0, FALSE)
       ELSE /\ pc' = "done"
            /\ UNCHANGED <<vloop, vtx1, entry>>
            /\ lastop' = Op("verify_mesh", 0, 0, verify_mesh(f))
    /\ UNCHANGED <<f, p, stats, dumpfile, held, oob, soup, pre, merged>>

\* merge_edge(vloop, vtx1): one iteration of its while loop, and its exit
\* when that emptied the list of vtx1
MergeStep ==
    /\ pc = "merge"
    /\ fcountOf(p, vtx1) > 0
    /\ LET k == p[vtx1 + 1].facets[1]
           M == MergeIteration(Mesh, vloop, vtx1)
       IN  /\ f' = M.f
           /\ p' = M.p
           /\ oob' = (oob \/ M.oob)
           /\ lastop' = Op(IF facet_on_vertex(Mesh, k, vloop)
                           THEN "remove_facet" ELSE "move_facet_vertex",
                           k, Len(f), ~ M.bad)
           /\ \/ /\ pc' = IF fcountOf(M.p, vtx1) = 0 THEN "scan" ELSE "merge"
                 /\ merged' = IF fcountOf(M.p, vtx1) = 0
                              THEN merged \cup {<<vloop, vtx1>>} ELSE merged
              \/ /\ M.oob
                 /\ pc' = "crashed"
                 /\ UNCHANGED merged
    /\ UNCHANGED <<vloop, vtx1, stats, dumpfile, held, soup, pre, entry>>

\* free_mesh: debug_mesh_fini(mesh, 4), then the two free()s
FreeMesh ==
    /\ pc \in {"soup", "indexed", "done"}
    /\ lastop' = Op("free_mesh", dumpfile /\ StaleRead(f, p, 4), 0, TRUE)
    /\ \/ /\ pc' = "freed"
          /\ dumpfile' = FALSE
          /\ held' = held \ {"bloom_table", "f"}
       \/ /\ dumpfile /\ StaleRead(f, p, 4)
          /\ pc' = "crashed"
          /\ UNCHANGED <<dumpfile, held>>
    /\ UNCHANGED <<f, p, vloop, vtx1, stats, oob, soup, pre, merged, entry>>

Next ==
    \/ DebugMeshInit
    \/ \E t \in Triangles : AddFacet(t)
    \/ IndexMesh
    \/ SimplifyMesh
    \/ ScanStep
    \/ MergeStep
    \/ FreeMesh

Spec == Init /\ [][Next]_vars

\* simplify_mesh is between its entry and its return
Running == pc \in {"scan", "merge"}

\* simplify_mesh is one sequential loop: once it is entered the process goes
\* on taking its steps, those of its while loop and those of merge_edge.
\* This is WF_vars(ScanStep \/ MergeStep) with ENABLED written out: a step is
\* enabled exactly when simplify_mesh is running (at the head of the loop
\* ScanStep has no guard; inside merge_edge the list of vtx1 is not empty,
\* which C12_Terminates checks).
LiveSpec ==
    Spec /\ ([]<>(~ Running) \/ []<><<ScanStep \/ MergeStep>>_vars)

(***************************************************************************)
(* same_normal by itself, on every pair of vectors with integer components *)
(* in -MaxCoord .. MaxCoord: the pair is drawn, then the function is       *)
(* applied.                                                                *)
(* The mesh is the new, empty one throughout.                              *)
(***************************************************************************)
Vectors ==
    { <<x * NormalUnit, y * NormalUnit, z * NormalUnit>> :
          x \in -MaxCoord .. MaxCoord, y \in -MaxCoord .. MaxCoord,
          z \in -MaxCoord .. MaxCoord }

GeomInit ==
    /\ f = << >>
    /\ p = << >>
    /\ pc = "soup"
    /\ vloop = 0
    /\ vtx1 = 0
    /\ stats = NoStats
    /\ dumpfile = FALSE
    /\ held = {}
    /\ oob = FALSE
    /\ soup = << >>
    /\ pre = TRUE
    /\ merged = {}
    /\ entry = [f |-> << >>, p |-> << >>]
    /\ \E n1 \in Vectors : \E n2 \in Vectors :
           lastop = Op("vectors", n1, n2, FALSE)

SameNormal ==
    /\ lastop.op = "vectors"
    /\ lastop' = Op("same_normal", lastop.a, lastop.b,
                    same_normal(lastop.a, lastop.b))
    /\ UNCHANGED <<f, p, pc, vloop, vtx1, stats, dumpfile, held, oob, soup,
                   pre, merged, entry>>

GeomNext == SameNormal

GeomSpec == GeomInit /\ [][GeomNext]_vars

(***************************************************************************)
(* Properties.                                                             *)
(***************************************************************************)
\* the states in which the mesh is indexed and no call is half way through
\* an update of it: index_mesh has returned, and every remove_facet and
\* move_facet_vertex of simplify_mesh so far has returned
Indexed == pc \in {"indexed", "scan", "merge", "done"}

\* how many entries of list L equal k
Occurrences(L, k) == Cardinality({ j \in 1 .. Len(L) : L[j] = k })

Corners(fc) == {fc.i[1], fc.i[2], fc.i[3]}

\* C1: incidence invariant.  Once index_mesh has returned, and after every
\* remove_facet and move_facet_vertex of simplify_mesh, a live facet is in a
\* vertex's incidence list exactly once when the vertex is one of its three
\* corners, and not at all when it is not.
C1_Incidence ==
    Indexed =>
        \A k \in 0 .. (Len(f) - 1) : \A v \in 0 .. (Len(p) - 1) :
            Occurrences(p[v + 1].facets, k)
                = (IF v \in Corners(f[k + 1]) THEN 1 ELSE 0)

\* a merge_edge that moved a facet and removed one has returned, facets remain
C1_Witness ==
    /\ pc = "scan"
    /\ lastop.op = "move_facet_vertex"
    /\ Len(f) >= 2
    /\ merged # {}

\* a merge_edge has just returned
MergeReturned ==
    pc = "scan" /\ lastop.op \in {"remove_facet", "move_facet_vertex"}

\* C2: valence bound.  When no vertex had more than FACETPNT_CNT incident
\* facets as simplify_mesh was entered, no vertex has more than FACETPNT_CNT
\* after any merge_edge it performs.
C2_Valence ==
    (MergeReturned /\ pre) =>
        \A v \in 0 .. (Len(p) - 1) : fcountOf(p, v) <= FACETPNT_CNT

\* a merge has returned that left its start vertex with exactly FACETPNT_CNT
\* facets, more than it had before the merge
C2_Witness ==
    /\ MergeReturned
    /\ pre
    /\ fcountOf(p, vloop) = FACETPNT_CNT
    /\ lastop.op = "move_facet_vertex"

\* C3: remove_facet on the facet at position k of n live facets leaves n-1
\* live facets at positions 0 .. n-2: the facet that was at position n-1 is
\* now at position k with its corners, the other facets are where they were,
\* no incidence entry names a position >= n-1, and position k is named only
\* by the corners of the facet now there.
C3_RemoveFacet ==
    [][ lastop'.op = "remove_facet" =>
          LET k == lastop'.a
              n == Len(f)
          IN  /\ lastop'.b = n
              /\ k \in 0 .. (n - 1)
              /\ Len(f') = n - 1
              /\ (k < n - 1) => (f'[k + 1] = f[n])
              /\ \A j \in 1 .. (n - 1) : (j # k + 1) => (f'[j] = f[j])
              /\ \A v \in 1 .. Len(p') : \A x \in 1 .. Len(p'[v].facets) :
                     /\ p'[v].facets[x] \in 0 .. (n - 2)
                     /\ (p'[v].facets[x] = k) => ((v - 1) \in Corners(f'[k + 1]))
              /\ (k < n - 1) =>
                     \A v \in Corners(f'[k + 1]) :
                         Occurrences(p'[v + 1].facets, k) = 1
      ]_vars

\* a remove_facet of a facet that was not the last has returned, with at
\* least two facets left
C3_Witness ==
    /\ lastop.op = "remove_facet"
    /\ lastop.a < lastop.b - 1
    /\ Len(f) >= 2
    /\ Len(f) = lastop.b - 1

\* C4: coordinate sync.  Once index_mesh has returned, and after every step
\* of every merge, corner j of every live facet has the coordinate of the
\* vertex its corner index j names.
C4_CoordSync ==
    Indexed =>
        \A k \in 1 .. Len(f) : \A j \in 1 .. 3 :
            /\ f[k].i[j] \in 0 .. (Len(p) - 1)
            /\ f[k].v[j] = p[f[k].i[j] + 1].pnt

\* a merge that moved a corner has returned and the facet moved is live
C4_Witness ==
    /\ MergeReturned
    /\ lastop.op = "move_facet_vertex"
    /\ \E k \in 1 .. Len(f) : \E j \in 1 .. 3 :
           f[k].i[j] = vloop /\ f[k].v \notin { soup[x] : x \in 1 .. Len(soup) }

\* the corner coordinates of the live facets
LivePoints == { f[k].v[j] : k \in 1 .. Len(f), j \in 1 .. 3 }

\* the soup indexed was two coplanar triangles of one orientation that share
\* a diagonal of the unit square A-B-C-D
FlatSquare ==
    /\ Len(soup) = 2
    /\ {soup[1][j] : j \in 1 .. 3} \cup {soup[2][j] : j \in 1 .. 3}
           = {PA, PB, PC, PD}
    /\ Cardinality({soup[1][j] : j \in 1 .. 3}
                       \cap {soup[2][j] : j \in 1 .. 3}) = 2
    /\ same_normal(pnt_normal(soup[1][1], soup[1][2], soup[1][3]).n,
                   pnt_normal(soup[2][1], soup[2][2], soup[2][3]).n)

\* the smallest box holding the points S is the unit square's
BoxIsUnitSquare(S) ==
    /\ S # {}
    /\ \A c \in 1 .. 2 :
           /\ \A q \in S : q[c] \in 0 .. Unit
           /\ \E q \in S : q[c] = 0
           /\ \E q \in S : q[c] = Unit

\* C5: end to end on the flat unit square: simplify_mesh returns with fewer
\* live facets than the two it was given, and the bounding box of the corners
\* of the facets left is still the unit square.
C5_FlatSquare ==
    (pc = "done" /\ FlatSquare) =>
        /\ Len(f) < Len(soup)
        /\ BoxIsUnitSquare(LivePoints)

\* C6: index_mesh, called by itself or by simplify_mesh, returns true for
\* every mesh and evaluates no division by zero on the way.
C6_IndexReturns ==
    (lastop.op \in {"index_mesh", "simplify_mesh"}) =>
        /\ pc # "crashed"
        /\ lastop.ret = TRUE
        /\ lastop.a = FALSE

MergedEnds == { pr[2] : pr \in merged }

\* C7: no re-merge.  A vertex that a merge_edge has had as its end has an
\* empty incidence list ever after, and is neither the start nor the end of
\* any merge_edge entered later, in this run of simplify_mesh or the next.
C7_NoRemerge ==
    /\ \A v \in MergedEnds : fcountOf(p, v) = 0
    /\ (pc = "merge") => (vloop \notin MergedEnds /\ vtx1 \notin MergedEnds)

\* simplify_mesh is inside a merge whose start vertex comes before the start
\* of a merge already done: it is running again on its own output
C7_Witness ==
    /\ pc = "merge"
    /\ \E pr \in merged : pr[1] > vloop

\* u and w are parallel: a multiple of one is a multiple of the other
Parallel(u, w) ==
    \E a \in -(4 * Unit) .. (4 * Unit) : \E b \in -(4 * Unit) .. (4 * Unit) :
        /\ (a # 0) \/ (b # 0)
        /\ \A c \in 1 .. 3 : a * u[c] = b * w[c]

Minus(u, w) == << u[1] - w[1], u[2] - w[2], u[3] - w[3] >>

\* two of the corners coincide or the three are on one line
Collinear(t) == Parallel(Minus(t[2], t[1]), Minus(t[3], t[1]))

\* C8: mesh_add_facet returns true and appends nothing exactly when its three
\* corners are collinear or two coincide; otherwise it returns false and
\* appends one facet holding the corners given and their normal.  The facets
\* that were live are as they were.
C8_AddFacet ==
    [][ lastop'.op = "mesh_add_facet" =>
          LET t == lastop'.a
          IN  /\ lastop'.ret = Collinear(t)
              /\ lastop'.ret => (f' = f)
              /\ (~ lastop'.ret) =>
                     /\ Len(f') = Len(f) + 1
                     /\ SubSeq(f', 1, Len(f)) = f
                     /\ f'[Len(f')].v = t
                     /\ f'[Len(f')].n
                            = cross_product(Minus(t[2], t[1]), Minus(t[3], t[1]))
      ]_vars

\* a facet has been appended after a degenerate one was turned away
C8_Witness ==
    /\ lastop.op = "mesh_add_facet"
    /\ lastop.ret = FALSE
    /\ Len(f) = 2
    /\ f[2].v = <<PB, PE, PC>>

\* the coordinates that occur among the corners of the soup
SoupPoints == { soup[k][j] : k \in 1 .. Len(soup), j \in 1 .. 3 }

C10_FreeMesh ==
    (lastop.op = "free_mesh") =>
        /\ pc = "freed"
        /\ held = {}
        /\ ~ dumpfile
        /\ lastop.a = FALSE

\* the vector (x, y, z) of integers
IntVector(x, y, z) == <<x * NormalUnit, y * NormalUnit, z * NormalUnit>>

\* C11: on vectors of integers, same_normal(n1, n2) is true exactly when the dot product of n1 and n2
\* is not negative and their cross product is the zero vector (the three
\* 2x2 minors vanish); it is true of (1,0,0),(1,0,0) and of (1,0,0),(2,0,0)
\* and false of (1,0,0),(-1,0,0).
C11_SameNormal ==
    (lastop.op = "same_normal") =>
        LET n1 == lastop.a
            n2 == lastop.b
        IN  /\ lastop.ret
                  = /\ (n1[1] * n2[1]) + (n1[2] * n2[2]) + (n1[3] * n2[3]) >= 0
                    /\ n1[2] * n2[3] = n1[3] * n2[2]
                    /\ n1[3] * n2[1] = n1[1] * n2[3]
                    /\ n1[1] * n2[2] = n1[2] * n2[1]
            /\ (n1 = IntVector(1, 0, 0)
                    /\ n2 \in {IntVector(1, 0, 0), IntVector(2, 0, 0)})
                  => lastop.ret
            /\ (n1 = IntVector(1, 0, 0) /\ n2 = IntVector(-1, 0, 0))
                  => ~ lastop.ret

\* same_normal has returned true for two parallel vectors of one sign and
\* different magnitude
C11_Witness ==
    /\ lastop.op = "same_normal"
    /\ lastop.a = IntVector(1, 0, 0)
    /\ lastop.b = IntVector(2, 0, 0)
    /\ lastop.ret

\* C12: simplify_mesh terminates.  An iteration of the loop of merge_edge
\* shortens the incidence list of `end` by one and adds no live facet; a
\* merge_edge that returns leaves fewer live facets than it found; and from
\* the head of its loop simplify_mesh goes on to return, the cursor at the
\* vertex count (or the process is ended inside a merge by a write past a
\* facets[] array, the matter of C17).
C12_Terminates ==
    /\ [][ (pc = "merge") =>
              /\ fcountOf(p', vtx1) = fcountOf(p, vtx1) - 1
              /\ Len(f') <= Len(f)
              /\ (pc' = "scan") => (Len(f') < Len(entry.f))
         ]_vars
    /\ [](pc = "merge" => fcountOf(p, vtx1) > 0)
    /\ [](pc = "done" => vloop = Len(p))
    /\ Running ~> (pc \in {"done", "crashed"})

\* simplify_mesh has returned after two merges or more
C12_Witness ==
    /\ pc = "done"
    /\ Cardinality(merged) >= 2
    /\ Len(f) < Len(soup)
    /\ vloop = Len(p)

\* C13: cursor rule.  simplify_mesh enters its loop with the cursor at 0; a
\* test of the loop that finds a merge leaves the cursor where it is, and so
\* does every step of the merge; a test that finds none advances it by one;
\* the cursor never decreases while simplify_mesh runs; and the start of
\* every merge_edge that returns is the vertex under the cursor, so no
\* vertex below the cursor is the start of a merge again.
C13_Cursor ==
    [][ /\ (~ Running /\ Running') => (vloop' = 0 /\ pc' = "scan")
        /\ (pc = "scan" /\ pc' = "merge") =>
               (vloop' = vloop /\ lastop'.a = vloop /\ vloop < Len(p))
        /\ (pc = "scan" /\ pc' = "scan") => (vloop' = vloop + 1)
        /\ (pc = "merge") => (vloop' = vloop)
        /\ (Running /\ Running') => (vloop' >= vloop)
        /\ \A pr \in merged' \ merged :
               /\ pr[1] = vloop'
               /\ \A v \in 0 .. (vloop' - 1) : pr[1] # v
      ]_vars

\* a merge at a vertex the cursor had advanced to has returned, and the
\* cursor has moved on past it
C13_Witness ==
    /\ pc = "scan"
    /\ vloop >= 2
    /\ \E pr \in merged : pr[1] >= 1 /\ pr[1] < vloop

\* the facets merge_edge found on vertex v as it was entered
EntryOn(v) == { k \in 1 .. Len(entry.f) : v \in Corners(entry.f[k]) }

\* the facets it found on both its start and its end
EntryShared == EntryOn(vloop) \cap EntryOn(vtx1)

\* C14: merge_edge(start, end), entered on a mesh that satisfies the
\* incidence invariant, returns with the incidence list of `end` empty; the
\* facets that were on both `start` and `end` are no longer live and the
\* live facet count has dropped by exactly their number; every other facet
\* that was on `end` is live, has `start` in the corner where it had `end`
\* and its other corners as they were, and is in the list of `start`.
C14_MergeEdge ==
    MergeReturned =>
        /\ fcountOf(p, vtx1) = 0
        /\ EntryShared # {}
        /\ \A k \in EntryShared : \A x \in 1 .. Len(f) : f[x].id # entry.f[k].id
        /\ Len(f) = Len(entry.f) - Cardinality(EntryShared)
        /\ \A k \in EntryOn(vtx1) \ EntryShared :
               \E x \in 1 .. Len(f) :
                   /\ f[x].id = entry.f[k].id
                   /\ \A j \in 1 .. 3 :
                          f[x].i[j] = (IF entry.f[k].i[j] = vtx1 THEN vloop
                                       ELSE entry.f[k].i[j])
                   /\ Occurrences(p[vloop + 1].facets, x - 1) = 1

\* a merge_edge has returned that removed two shared facets and moved a third
C14_Witness ==
    /\ MergeReturned
    /\ Cardinality(EntryShared) = 2
    /\ EntryOn(vtx1) \ EntryShared # {}

\* the normal facet fc had when index_mesh returned
IndexedNormal(fc) ==
    pnt_normal(soup[fc.id + 1][1], soup[fc.id + 1][2], soup[fc.id + 1][3]).n

\* n1 and n2 are parallel and not opposed: their dot product is not negative
\* and their cross product is the zero vector
SameOrientation(n1, n2) ==
    /\ (n1[1] * n2[1]) + (n1[2] * n2[2]) + (n1[3] * n2[3]) >= 0
    /\ n1[2] * n2[3] = n1[3] * n2[2]
    /\ n1[3] * n2[1] = n1[1] * n2[3]
    /\ n1[1] * n2[2] = n1[2] * n2[1]

\* C15: orientation is preserved.  Every facet that is live when
\* simplify_mesh returns has a cached normal that is not zero, is the normal
\* of its corners, and has the orientation of the normal the same facet had
\* when index_mesh returned.
C15_Orientation ==
    (pc = "done") =>
        \A k \in 1 .. Len(f) :
            /\ f[k].n # <<0, 0, 0>>
            /\ f[k].n = pnt_normal(f[k].v[1], f[k].v[2], f[k].v[3]).n
            /\ SameOrientation(f[k].n, IndexedNormal(f[k]))

\* C16: inside every merge_edge of simplify_mesh every move_facet_vertex
\* returns true (the corner is found, the facet is taken off the list of
\* `end`, the moved triangle is not degenerate) and every remove_facet finds
\* the facet in each incidence list it takes it off; no live facet of an
\* indexed mesh has two equal corner indices or two equal corner
\* coordinates; and verify_mesh reports nothing.
C16_NoFailure ==
    /\ (lastop.op \in {"remove_facet", "move_facet_vertex"}) => lastop.ret
    /\ Indexed =>
           \A k \in 1 .. Len(f) :
               /\ Cardinality(Corners(f[k])) = 3
               /\ Cardinality({f[k].v[1], f[k].v[2], f[k].v[3]}) = 3
               /\ ~ VerifyReports(f[k])
    /\ (lastop.op = "verify_mesh") => ~ lastop.ret

\* verify_mesh has looked at the facets left after a merge that moved one
C16_Witness ==
    /\ lastop.op = "verify_mesh"
    /\ ~ lastop.ret
    /\ merged # {}
    /\ \E k \in 1 .. Len(f) : f[k].v # soup[f[k].id + 1]

\* C17: at every step inside merge_edge, not only as it returns, no vertex
\* has more than FACETPNT_CNT incident facets and every write
\* facets[fcount++] of move_facet_vertex and remove_facet lands at an index
\* below FACETPNT_CNT, in every merge find_adjacent admits on a mesh that
\* had no more than FACETPNT_CNT facets on any vertex as simplify_mesh was
\* entered.
C17_NoOverflow ==
    (Running /\ pre) =>
        /\ ~ oob
        /\ \A v \in 0 .. (Len(p) - 1) : fcountOf(p, v) <= FACETPNT_CNT

\* C18: frame of simplification.  No step of simplify_mesh on an indexed
\* mesh changes the number of vertices or the coordinate of one.  A step of
\* merge_edge(start, end) leaves every live facet that is not on `end` live,
\* with its corner indices, corner coordinates and normal as they were, and
\* so does the merge_edge as a whole: only the position of such a facet in
\* the facet array may change.
C18_Frame ==
    /\ [][ /\ ((Running \/ Running') /\ Len(p) > 0) =>
                 /\ Len(p') = Len(p)
                 /\ \A v \in 1 .. Len(p) : p'[v].pnt = p[v].pnt
           /\ (pc = "merge") =>
                 \A k \in { j \in 1 .. Len(f) : vtx1 \notin Corners(f[j]) } :
                     \E x \in 1 .. Len(f') : f'[x] = f[k]
         ]_vars
    /\ [](MergeReturned =>
             \A k \in (1 .. Len(entry.f)) \ EntryOn(vtx1) :
                 \E x \in 1 .. Len(f) : f[x] = entry.f[k])

\* a merge_edge has returned and a facet that was not on its end is at
\* another position than it was
C18_Witness ==
    /\ MergeReturned
    /\ \E k \in (1 .. Len(entry.f)) \ EntryOn(vtx1) :
           \E x \in 1 .. Len(f) : f[x] = entry.f[k] /\ x # k

\* the corners find_adjacent(v) looks at, numbered in the order it looks at
\* them: facet by facet in the order of v's incidence list, corners 0, 1, 2
ScanOrder(v) == 0 .. (3 * fcountOf(p, v) - 1)

ScannedVertex(v, n) == f[p[v + 1].facets[(n \div 3) + 1] + 1].i[(n % 3) + 1]

\* the places in that order that hold a vertex fit to be merged into v
Suitable(v) ==
    { n \in ScanOrder(v) :
        LET c == ScannedVertex(v, n)
        IN  /\ c # v
            /\ is_candidate(Mesh, c)
            /\ fcountOf(p, v) + fcountOf(p, c) - 2 <= FACETPNT_CNT
            /\ check_move_ok(Mesh, c, v) }

\* C19: on every vertex v of every mesh simplify_mesh works on,
\* find_adjacent(v) returns true with the first vertex in scan order that
\* differs from v, is a candidate, keeps v.fcount + n.fcount - 2 within
\* FACETPNT_CNT and passes check_move_ok(n, v); it returns false exactly
\* when there is none; and the test of the loop that calls it changes
\* neither the facets nor the vertices.
C19_FindAdjacent ==
    /\ [](Running =>
             \A v \in 0 .. (Len(p) - 1) :
                 LET r == find_adjacent(Mesh, v)
                 IN  /\ r.found = (Suitable(v) # {})
                     /\ r.found =>
                            \E n \in Suitable(v) :
                                /\ r.avtx = ScannedVertex(v, n)
                                /\ \A m \in Suitable(v) : n <= m)
    /\ [][ (lastop'.op = "find_adjacent") =>
              /\ f' = f /\ p' = p
              /\ lastop'.ret =>
                     (find_adjacent(Mesh, vloop) = [found |-> TRUE, avtx |-> vtx1'])
         ]_vars

\* find_adjacent has returned a vertex that was not the first it looked at:
\* it had turned down another vertex before
C19_Witness ==
    /\ pc = "merge"
    /\ lastop.op = "find_adjacent"
    /\ \E n \in Suitable(vloop) :
           /\ ScannedVertex(vloop, n) = vtx1
           /\ \E m \in 0 .. (n - 1) :
                  ScannedVertex(vloop, m) \notin {vloop, vtx1}

\* the corners of facet fc with the coordinate topnt in place of the corner
\* that is vertex `from`
Moved(fc, from, topnt) ==
    LET j == CHOOSE x \in 1 .. 3 :
                 fc.i[x] = from /\ \A y \in 1 .. (x - 1) : fc.i[y] # from
    IN  [fc.v EXCEPT ![j] = topnt]

\* at least two of the three corners coincide
TwoCoincide(t) == (t[1] = t[2]) \/ (t[2] = t[3]) \/ (t[3] = t[1])

\* the normal of the triangle t
NormalOf(t) == cross_product(Minus(t[2], t[1]), Minus(t[3], t[1]))

\* C20: on an indexed mesh check_move_ok(from, to) is true exactly when,
\* for every facet on `from`, the triangle with `to`'s coordinate in place of
\* `from`'s corner is either not degenerate and of the orientation of the
\* facet's cached normal, or degenerate with two corners that coincide; a
\* triangle of three distinct collinear corners makes it false.
C20_CheckMoveOk ==
    Running =>
        \A from \in 0 .. (Len(p) - 1) : \A to \in 0 .. (Len(p) - 1) :
            check_move_ok(Mesh, from, to)
                = \A x \in 1 .. fcountOf(p, from) :
                      LET fc == f[p[from + 1].facets[x] + 1]
                          t  == Moved(fc, from, p[to + 1].pnt)
                      IN  IF Collinear(t)
                          THEN TwoCoincide(t)
                          ELSE SameOrientation(NormalOf(t), fc.n)

\* the cached normals of the facets on vertex v
NormalsOn(v) == { f[p[v + 1].facets[x] + 1].n : x \in 1 .. fcountOf(p, v) }

\* C21: in every mesh state simplify_mesh reaches, is_candidate(v) is true
\* exactly when every two facets on v have the same orientation; a vertex
\* with no facet or one facet is a candidate.
C21_IsCandidate ==
    Running =>
        \A v \in 0 .. (Len(p) - 1) :
            /\ is_candidate(Mesh, v)
                  = \A n1 \in NormalsOn(v) : \A n2 \in NormalsOn(v) :
                        SameOrientation(n1, n2)
            /\ (fcountOf(p, v) <= 1) => is_candidate(Mesh, v)

====
